---------------------------- MODULE Spec2Model ----------------------------
(***************************************************************************)
(* A model of the three README automation scripts:                         *)
(*   scripts/update-recent-prs.mjs  (two scripts in one file: the recent   *)
(*       pull request reporter, lines 1-140, and the recent commit         *)
(*       reporter, lines 142-333)                                          *)
(*   scripts/update-language-badge.mjs (the language badge renderer)       *)
(*                                                                         *)
(* Text is modelled as a sequence of lexical tokens: a marker comment is   *)
(* one token, a line break is one token, any other run of text is one      *)
(* token.  The four marker strings of the source are pairwise distinct,    *)
(* none is a substring of another, none contains a line break and none     *)
(* overlaps itself, so String.indexOf on characters and IndexOf on tokens  *)
(* locate the same markers.                                                *)
(***************************************************************************)
EXTENDS Integers, Sequences, FiniteSets, TLC

VARIABLES
    script,        \* which script this process runs: "prs", "commits", "badge"
    limit,         \* prLimit / commitLimit
    includeDrafts, \* includeDrafts (PR script)
    pc,            \* position of the run
    page,          \* the loop variable `page`
    left,          \* events of the current page not yet iterated
    recs,          \* the local list `prs` / `commits`
    seen,          \* the local Set `seen`
    commitCache,   \* the module-level Map `commitCache`
    inl,           \* entries of payload.commits not yet iterated
    headSha,       \* the local `headSha` while its lookup is awaited
    last,          \* what the latest loop iteration did (log of the run)
    lookupDates,   \* created_at of every event a commit-detail request was sent for
    failedShas,    \* head SHAs whose commit-detail request did not succeed
    doc,           \* content of README.md on disk
    markup,        \* the string handed to updateReadme
    writes,        \* number of fs.writeFile calls of the current run
    exitCode,      \* process exit status: "running", then "0" or "1"
    error,         \* which error reached the top-level catch
    run,           \* 1 for the first run, 2 for a repeated run on the same feed
    doc0,          \* README.md as the current run read it
    doc1,          \* README.md as the first run left it
    languageMap,   \* the Map built by fetchLanguages, in insertion order
    edges,         \* language edges iterated so far
    topLimit,      \* topLanguagesLimit
    labels         \* the percent labels buildSvg rendered

vars == <<script, limit, includeDrafts, pc, page, left, recs, seen, commitCache,
          inl, headSha, last, lookupDates, failedShas, doc, markup, writes, exitCode, error, run, doc0,
          doc1, languageMap, edges, topLimit, labels>>

feedVars == <<page, left, recs, seen, commitCache, inl, headSha, last, lookupDates,
              failedShas>>
fileVars == <<doc, markup, writes, doc0, doc1>>
badgeVars == <<languageMap, edges, topLimit, labels>>

-----------------------------------------------------------------------------
(* Bounds of the model *)

MaxLimit == 2
MaxPages == 2
MaxEvents == 2
MaxInline == 2
MaxDoc == 5
MaxEdges == 4
MaxTop == 3

-----------------------------------------------------------------------------
(* Text *)

NL == "\n"
TEXT == "text"

START_TAG(s) ==
    IF s = "prs" THEN <<"<!-- START_RECENT_PRS -->">>
                 ELSE <<"<!-- START_RECENT_COMMITS -->">>

END_TAG(s) ==
    IF s = "prs" THEN <<"<!-- END_RECENT_PRS -->">>
                 ELSE <<"<!-- END_RECENT_COMMITS -->">>

Other(s) == IF s = "prs" THEN "commits" ELSE "prs"

Tokens == {START_TAG("prs")[1], END_TAG("prs")[1],
           START_TAG("commits")[1], END_TAG("commits")[1], NL, TEXT}

\* String.prototype.indexOf: 0-based position of the first occurrence, -1 if none
IndexOf(content, tag) ==
    LET hits == {i \in 0..(Len(content) - Len(tag)) :
                    SubSeq(content, i + 1, i + Len(tag)) = tag}
    IN  IF hits = {} THEN -1
        ELSE CHOOSE i \in hits : \A j \in hits : i <= j

\* String.prototype.slice(from, to) and slice(from), 0-based, end exclusive
Slice(content, from, to) == SubSeq(content, from + 1, to)
SliceFrom(content, from) == SubSeq(content, from + 1, Len(content))

-----------------------------------------------------------------------------
(* Pure functions of update-recent-prs.mjs *)

NULL == "null"

\* a title or commit message worth distinguishing: plain text, or text that
\* spells the script's own end marker (titles and messages come from the feed)
Titles(s) == {<<TEXT>>, END_TAG(s)}

formatStatus_swapped(pr) ==
    IF pr.state = "closed" THEN "Closed"
    ELSE IF pr.merged_at # NULL THEN "Merged"
    ELSE IF pr.draft THEN "Draft"
    ELSE "Open"

formatStatus(pr) ==
    IF pr.merged_at # NULL THEN "Merged"
    ELSE IF pr.state = "closed" THEN "Closed"
    ELSE IF pr.draft THEN "Draft"
    ELSE "Open"

\* one <tr> of the table: the link target, the title or message, and for a
\* pull request the status; the fixed cell markup carries no marker
Row(s, r) ==
    IF s = "prs" THEN <<r.key>> \o r.text \o <<r.status>>
                 ELSE <<r.key>> \o r.text

RECURSIVE JoinRows(_, _)
JoinRows(s, rs) ==
    IF rs = <<>> THEN <<>>
    ELSE IF Len(rs) = 1 THEN Row(s, rs[1])
    ELSE Row(s, rs[1]) \o <<NL>> \o JoinRows(s, Tail(rs))

\* buildPrMarkup / buildCommitMarkup: the placeholder block for an empty
\* list, else the table template around the joined rows (each fixed run of
\* template text is written as one TEXT token)
buildMarkup(s, rs) ==
    IF Len(rs) = 0 THEN <<TEXT>>
    ELSE <<TEXT, NL>> \o JoinRows(s, rs) \o <<NL, TEXT>>

updateReadme_pastEnd(content, mk, s) ==
    LET startIndex == IndexOf(content, START_TAG(s))
        endIndex == IndexOf(content, END_TAG(s))
    IN  IF startIndex = -1 \/ endIndex = -1 \/ endIndex <= startIndex
        THEN [threw |-> TRUE, wrote |-> FALSE, next |-> content]
        ELSE LET before == Slice(content, 0, startIndex + Len(START_TAG(s)))
                 after == SliceFrom(content, endIndex + Len(END_TAG(s)))
                 nextContent == before \o <<NL>> \o mk \o <<NL>> \o after
             IN  [threw |-> FALSE, wrote |-> nextContent # content,
                  next |-> nextContent]

updateReadme_noCheck(content, mk, s) ==
    LET startIndex == IndexOf(content, START_TAG(s))
        endIndex == IndexOf(content, END_TAG(s))
    IN  IF startIndex = -1 \/ endIndex = -1
        THEN [threw |-> TRUE, wrote |-> FALSE, next |-> content]
        ELSE LET before == Slice(content, 0, startIndex + Len(START_TAG(s)))
                 after == SliceFrom(content, endIndex)
                 nextContent == before \o <<NL>> \o mk \o <<NL>> \o after
             IN  [threw |-> FALSE, wrote |-> nextContent # content,
                  next |-> nextContent]

\* updateReadme: what it throws, whether it calls writeFile, and with what
updateReadme(content, mk, s) ==
    LET startIndex == IndexOf(content, START_TAG(s))
        endIndex == IndexOf(content, END_TAG(s))
    IN  IF startIndex = -1 \/ endIndex = -1 \/ endIndex <= startIndex
        THEN [threw |-> TRUE, wrote |-> FALSE, next |-> content]
        ELSE LET before == Slice(content, 0, startIndex + Len(START_TAG(s)))
                 after == SliceFrom(content, endIndex)
                 nextContent == before \o <<NL>> \o mk \o <<NL>> \o after
             IN  [threw |-> FALSE, wrote |-> nextContent # content,
                  next |-> nextContent]

-----------------------------------------------------------------------------
(* The end of a run: lines 133-140 and 326-333 *)

\* const markup = build...Markup(list); await updateReadme(markup); with the
\* top-level catch turning a throw into process.exit(1)
RenderAndUpdate ==
    /\ script \in {"prs", "commits"}
    /\ pc = "update"
    /\ LET mk == buildMarkup(script, recs)
           r == updateReadme(doc, mk, script)
       IN  /\ markup' = mk
           /\ doc0' = doc
           /\ doc' = IF r.wrote THEN r.next ELSE doc
           /\ writes' = IF r.wrote THEN writes + 1 ELSE writes
           /\ doc1' = IF run = 1 THEN (IF r.wrote THEN r.next ELSE doc) ELSE doc1
           /\ pc' = IF r.threw THEN "failed" ELSE "done"
           /\ exitCode' = IF r.threw THEN "1" ELSE "0"
           /\ error' = IF r.threw THEN "markers" ELSE error
    /\ UNCHANGED <<script, limit, includeDrafts, run>>
    /\ UNCHANGED feedVars
    /\ UNCHANGED badgeVars

\* the scheduled job starts the script again; the feed returns what it
\* returned before, so the fetch yields the same list
RunAgain ==
    /\ script \in {"prs", "commits"}
    /\ pc = "done"
    /\ run = 1
    /\ run' = 2
    /\ pc' = "update"
    /\ writes' = 0
    /\ exitCode' = "running"
    /\ UNCHANGED <<script, limit, includeDrafts, error, doc, markup, doc0, doc1>>
    /\ UNCHANGED feedVars
    /\ UNCHANGED badgeVars

-----------------------------------------------------------------------------
(* The event feed *)

\* created_at as the feed gives it: not a date; a date before sinceDate; the
\* date sinceDate itself, the oldest date the comparison lets through
Dates == {"invalid", "old", "edge"}

\* Date.now() - lookbackDays * 24 * 60 * 60 * 1000, on a scale of days
sinceDate == 1

\* new Date(created_at).getTime(); only called on what IsNaNDate lets through
getTime(created_at) ==
    CASE created_at = "old" -> sinceDate - 1
      [] created_at = "edge" -> sinceDate

IsNaNDate(created_at) == created_at = "invalid"

\* pr.html_url of the pull requests, and the commit SHAs, of the feed
Urls == {"pull/1", "pull/2"}
Shas == {"sha1", "sha2"}
REPO == "owner/repo"

NoPr == [merged_at |-> NULL, state |-> "open", draft |-> FALSE]

PrEvents ==
    [type : {"PullRequestEvent"}, created_at : Dates, html_url : Urls \cup {NULL},
     draft : BOOLEAN, merged_at : {NULL, "2024-01-01"}, state : {"open", "closed"},
     title : Titles("prs")]
    \cup
    [type : {"WatchEvent"}, created_at : {"edge"}, html_url : {"pull/1"},
     draft : {FALSE}, merged_at : {NULL}, state : {"open"}, title : {<<TEXT>>}]

\* a push event: ncommits is the length of payload.commits (0 when it is
\* missing or empty), head is payload.head
PushEvents ==
    [type : {"PushEvent"}, created_at : Dates, repo : {REPO, NULL},
     ncommits : 0..MaxInline, head : Shas \cup {NULL}]
    \cup
    [type : {"WatchEvent"}, created_at : {"edge"}, repo : {REPO},
     ncommits : {1}, head : {NULL}]

InlineCommits == [sha : Shas \cup {NULL}, message : Titles("commits")]

\* what the commit endpoint answers: a commit, a non-2xx status, or fetch rejects
Replies ==
    [kind : {"ok"}, message : Titles("commits")]
    \cup [kind : {"status", "reject"}, message : {<<TEXT>>}]

-----------------------------------------------------------------------------
(* fetchRecentPRs / fetchRecentCommits: the page loop *)

onResponse_break(ok, n) ==
    IF ~ok \/ n = 0 THEN [pc |-> "update", exitCode |-> "running", error |-> "none", left |-> 0]
    ELSE [pc |-> "scan", exitCode |-> "running", error |-> "none", left |-> n]

\* lines 51-59 / 206-214 with the top-level catch: a non-ok response throws,
\* an empty page breaks out of the loop, any other page is iterated
onResponse(ok, n) ==
    IF ~ok THEN [pc |-> "failed", exitCode |-> "1", error |-> "events", left |-> 0]
    ELSE IF n = 0 THEN [pc |-> "update", exitCode |-> "running", error |-> "none", left |-> 0]
    ELSE [pc |-> "scan", exitCode |-> "running", error |-> "none", left |-> n]

FetchEvents(ok, n) ==
    /\ script \in {"prs", "commits"}
    /\ pc = "fetch"
    /\ page <= MaxPages
    /\ LET r == onResponse(ok, n)
       IN  /\ pc' = r.pc
           /\ exitCode' = r.exitCode
           /\ error' = r.error
           /\ left' = r.left
    /\ last' = [last EXCEPT !.out = IF ok THEN "page" ELSE "http-error"]
    /\ UNCHANGED <<script, limit, includeDrafts, run, page, recs, seen,
                   commitCache, inl, headSha, lookupDates, failedShas>>
    /\ UNCHANGED fileVars
    /\ UNCHANGED badgeVars

\* page > eventMaxPages: the for loop ends and the list is returned
LoopEnds ==
    /\ script \in {"prs", "commits"}
    /\ pc = "fetch"
    /\ page > MaxPages
    /\ pc' = "update"
    /\ UNCHANGED <<script, limit, includeDrafts, run, exitCode, error>>
    /\ UNCHANGED feedVars
    /\ UNCHANGED fileVars
    /\ UNCHANGED badgeVars

\* where the run stands after an iteration of `for (const event of events)`:
\* returned from the function, or on to the next event, or on to the next page
AfterEvent(returned) ==
    /\ pc' = IF returned THEN "update" ELSE IF left = 1 THEN "fetch" ELSE "scan"
    /\ left' = IF returned THEN 0 ELSE left - 1
    /\ page' = IF ~returned /\ left = 1 THEN page + 1 ELSE page

-----------------------------------------------------------------------------
(* fetchRecentPRs: one iteration of the event loop, lines 61-88 *)

tooOld_missesNaN(created_at) == created_at = "old"

\* lines 63-66 / 218-221: the event's date does not parse or is before sinceDate
tooOld(created_at) ==
    IsNaNDate(created_at) \/ getTime(created_at) < sinceDate

seenHas_never(seenSet, key) == FALSE

\* seen.has(key)
seenHas(seenSet, key) == key \in seenSet

\* prs.length >= prLimit / commits.length >= commitLimit
limitReached(list, lim) == Len(list) >= lim

\* event.payload.pull_request is flattened into the event: html_url is NULL
\* when the payload has no pull request or the pull request has no URL
prIteration(event, prs, seenSet, prLimit, drafts) ==
    IF event.type # "PullRequestEvent"
    THEN [prs |-> prs, seen |-> seenSet, returned |-> FALSE, out |-> "type"]
    ELSE IF tooOld(event.created_at)
    THEN [prs |-> prs, seen |-> seenSet, returned |-> FALSE, out |-> "stale"]
    ELSE IF event.html_url = NULL
    THEN [prs |-> prs, seen |-> seenSet, returned |-> FALSE, out |-> "nourl"]
    ELSE IF ~drafts /\ event.draft
    THEN [prs |-> prs, seen |-> seenSet, returned |-> FALSE, out |-> "draft"]
    ELSE IF seenHas(seenSet, event.html_url)
    THEN [prs |-> prs, seen |-> seenSet, returned |-> FALSE, out |-> "dup"]
    ELSE LET next == Append(prs, [key |-> event.html_url, text |-> event.title,
                                  status |-> formatStatus(event)])
         IN  [prs |-> next, seen |-> seenSet \cup {event.html_url},
              returned |-> limitReached(next, prLimit), out |-> "pushed"]

PrEvent(event) ==
    /\ script = "prs"
    /\ pc = "scan"
    /\ LET r == prIteration(event, recs, seen, limit, includeDrafts)
       IN  /\ recs' = r.prs
           /\ seen' = r.seen
           /\ last' = [date |-> event.created_at, out |-> r.out,
                       pr |-> IF r.out = "pushed"
                              THEN [merged_at |-> event.merged_at,
                                    state |-> event.state, draft |-> event.draft]
                              ELSE NoPr,
                       reply |-> "none"]
           /\ AfterEvent(r.returned)
    /\ UNCHANGED <<script, limit, includeDrafts, run, exitCode, error,
                   commitCache, inl, headSha, lookupDates, failedShas>>
    /\ UNCHANGED fileVars
    /\ UNCHANGED badgeVars

-----------------------------------------------------------------------------
(* fetchRecentCommits: lines 166-276 *)

\* commitCache.set(cacheKey, info)
CachePut(cache, key, info) ==
    [k \in DOMAIN cache \cup {key} |-> IF k = key THEN info ELSE cache[k]]

fetchCommitDetails_throws(repoName, sha, cache, reply) ==
    LET cacheKey == <<repoName, sha>>
    IN  IF cacheKey \in DOMAIN cache
        THEN [ok |-> TRUE, threw |-> FALSE, message |-> cache[cacheKey].message,
              cache |-> cache, requested |-> FALSE]
        ELSE IF reply.kind = "reject"
        THEN [ok |-> FALSE, threw |-> TRUE, message |-> <<TEXT>>, cache |-> cache,
              requested |-> TRUE]
        ELSE IF reply.kind = "status"
        THEN [ok |-> FALSE, threw |-> FALSE, message |-> <<TEXT>>, cache |-> cache,
              requested |-> TRUE]
        ELSE [ok |-> TRUE, threw |-> FALSE, message |-> reply.message,
              cache |-> CachePut(cache, cacheKey, [message |-> reply.message]),
              requested |-> TRUE]

\* fetchCommitDetails: ok is FALSE for the null it returns on a non-ok status
\* and on a rejected fetch (both caught and logged inside); threw is whether
\* an exception leaves the function
fetchCommitDetails(repoName, sha, cache, reply) ==
    LET cacheKey == <<repoName, sha>>
    IN  IF cacheKey \in DOMAIN cache
        THEN [ok |-> TRUE, threw |-> FALSE, message |-> cache[cacheKey].message,
              cache |-> cache, requested |-> FALSE]
        ELSE IF reply.kind \in {"status", "reject"}
        THEN [ok |-> FALSE, threw |-> FALSE, message |-> <<TEXT>>, cache |-> cache,
              requested |-> TRUE]
        ELSE [ok |-> TRUE, threw |-> FALSE, message |-> reply.message,
              cache |-> CachePut(cache, cacheKey, [message |-> reply.message]),
              requested |-> TRUE]

\* lines 216-227 and 253-254: what one push event leads to: a skip, the
\* inline loop over payload.commits, or the lookup of payload.head
pushIteration(event, seenSet) ==
    IF event.type # "PushEvent" THEN "type"
    ELSE IF tooOld(event.created_at) THEN "stale"
    ELSE IF event.repo = NULL THEN "norepo"
    ELSE IF event.ncommits > 0 THEN "inline"
    ELSE IF event.head = NULL THEN "nohead"
    ELSE IF seenHas(seenSet, event.head) THEN "dup-head"
    ELSE "lookup"

\* lines 255-270: what follows `await fetchCommitDetails(repoName, headSha)`,
\* d being what the call gave
afterLookup(d, sha, commits, seenSet, commitLimit) ==
    IF d.threw
    THEN [commits |-> commits, seen |-> seenSet, returned |-> FALSE,
          threw |-> TRUE, out |-> "lookup-threw"]
    ELSE IF ~d.ok
    THEN [commits |-> commits, seen |-> seenSet, returned |-> FALSE,
          threw |-> FALSE, out |-> "lookup-failed"]
    ELSE LET next == Append(commits, [key |-> sha, text |-> d.message,
                                      via |-> "head"])
         IN  [commits |-> next, seen |-> seenSet \cup {sha},
              returned |-> limitReached(next, commitLimit),
              threw |-> FALSE, out |-> "pushed"]

\* lines 229-249: one entry of payload.commits
inlineIteration(commit, commits, seenSet, commitLimit) ==
    IF commit.sha = NULL
    THEN [commits |-> commits, seen |-> seenSet, returned |-> FALSE, out |-> "nosha"]
    ELSE IF seenHas(seenSet, commit.sha)
    THEN [commits |-> commits, seen |-> seenSet, returned |-> FALSE, out |-> "dup"]
    ELSE LET next == Append(commits, [key |-> commit.sha, text |-> commit.message,
                                      via |-> "inline"])
         IN  [commits |-> next, seen |-> seenSet \cup {commit.sha},
              returned |-> limitReached(next, commitLimit), out |-> "pushed"]

PushEvent(event) ==
    /\ script = "commits"
    /\ pc = "scan"
    /\ LET out == pushIteration(event, seen)
       IN  /\ last' = [date |-> event.created_at, out |-> out, pr |-> NoPr,
                       reply |-> "none"]
           /\ IF out = "inline"
              THEN /\ pc' = "inline"
                   /\ inl' = event.ncommits
                   /\ UNCHANGED <<left, page, headSha>>
              ELSE IF out = "lookup"
              THEN /\ pc' = "lookup"
                   /\ headSha' = event.head
                   /\ UNCHANGED <<left, page, inl>>
              ELSE /\ AfterEvent(FALSE)
                   /\ UNCHANGED <<inl, headSha>>
    /\ UNCHANGED <<script, limit, includeDrafts, run, exitCode, error, recs,
                   seen, commitCache, lookupDates, failedShas>>
    /\ UNCHANGED fileVars
    /\ UNCHANGED badgeVars

\* the commit endpoint answers (or the cache does) and the event's iteration
\* runs to its end
CommitDetails(reply) ==
    /\ script = "commits"
    /\ pc = "lookup"
    /\ LET d == fetchCommitDetails(REPO, headSha, commitCache, reply)
           r == afterLookup(d, headSha, recs, seen, limit)
       IN  /\ recs' = r.commits
           /\ seen' = r.seen
           /\ commitCache' = d.cache
           /\ last' = [last EXCEPT !.out = r.out,
                                   !.reply = IF d.requested THEN reply.kind
                                             ELSE "cached"]
           /\ lookupDates' = IF d.requested
                             THEN lookupDates \cup {last.date}
                             ELSE lookupDates
           /\ failedShas' = IF d.requested /\ reply.kind # "ok"
                            THEN failedShas \cup {headSha}
                            ELSE failedShas
           /\ IF r.threw
              THEN /\ pc' = "failed"
                   /\ exitCode' = "1"
                   /\ error' = "lookup"
                   /\ UNCHANGED <<left, page>>
              ELSE /\ AfterEvent(r.returned)
                   /\ UNCHANGED <<exitCode, error>>
    /\ headSha' = NULL
    /\ UNCHANGED <<script, limit, includeDrafts, run, inl>>
    /\ UNCHANGED fileVars
    /\ UNCHANGED badgeVars

InlineCommit(commit) ==
    /\ script = "commits"
    /\ pc = "inline"
    /\ LET r == inlineIteration(commit, recs, seen, limit)
       IN  /\ recs' = r.commits
           /\ seen' = r.seen
           /\ last' = [last EXCEPT !.out = r.out, !.reply = "none"]
           /\ IF ~r.returned /\ inl > 1
              THEN /\ inl' = inl - 1
                   /\ UNCHANGED <<pc, left, page>>
              ELSE /\ inl' = 0
                   /\ AfterEvent(r.returned)
    /\ UNCHANGED <<script, limit, includeDrafts, run, exitCode, error,
                   commitCache, headSha, lookupDates, failedShas>>
    /\ UNCHANGED fileVars
    /\ UNCHANGED badgeVars

-----------------------------------------------------------------------------
(* Specifications of the two reporters *)

\* README.md files a run may find
Readmes ==
    {<<TEXT, NL>> \o START_TAG("prs") \o <<NL, TEXT, NL>> \o END_TAG("prs")
        \o <<NL>> \o START_TAG("commits") \o <<NL, TEXT, NL>> \o END_TAG("commits"),
     <<TEXT, NL>> \o START_TAG("prs") \o <<NL>> \o START_TAG("commits")}

EmptyCache == [k \in {} |-> [message |-> <<TEXT>>]]

InitFeed ==
    /\ page = 1
    /\ left = 0
    /\ recs = <<>>
    /\ seen = {}
    /\ commitCache = EmptyCache
    /\ inl = 0
    /\ headSha = NULL
    /\ last = [date |-> "edge", out |-> "none", pr |-> NoPr, reply |-> "none"]
    /\ lookupDates = {}
    /\ failedShas = {}

InitBadgeIdle ==
    /\ languageMap = <<>>
    /\ edges = 0
    /\ topLimit = 0
    /\ labels = <<>>

Init ==
    /\ script \in {"prs", "commits"}
    /\ limit \in 0..MaxLimit
    /\ includeDrafts \in (IF script = "prs" THEN BOOLEAN ELSE {FALSE})
    /\ pc = "fetch"
    /\ InitFeed
    /\ doc \in Readmes
    /\ markup = <<>>
    /\ writes = 0
    /\ exitCode = "running"
    /\ error = "none"
    /\ run = 1
    /\ doc0 = doc
    /\ doc1 = doc
    /\ InitBadgeIdle

Next ==
    \/ \E ok \in BOOLEAN, n \in 0..MaxEvents : FetchEvents(ok, n)
    \/ LoopEnds
    \/ \E event \in PrEvents : PrEvent(event)
    \/ \E event \in PushEvents : PushEvent(event)
    \/ \E reply \in Replies : CommitDetails(reply)
    \/ \E commit \in InlineCommits : InlineCommit(commit)
    \/ RenderAndUpdate

Spec == Init /\ [][Next]_vars

-----------------------------------------------------------------------------
(* The splice on its own: every README up to MaxDoc tokens, a fetched list *)

Docs == UNION {[1..n -> Tokens] : n \in 0..MaxDoc}

\* lists a fetch can return
Fetched(s) ==
    LET keys == IF s = "prs" THEN <<"pull/1", "pull/2">> ELSE <<"sha1", "sha2">>
        rec(k, t) == IF s = "prs"
                     THEN [key |-> keys[k], text |-> t, status |-> "Open"]
                     ELSE [key |-> keys[k], text |-> t, via |-> "inline"]
    IN  {<<>>, <<rec(1, <<TEXT>>)>>, <<rec(1, END_TAG(s))>>,
         <<rec(1, <<TEXT>>), rec(2, <<TEXT>>)>>}

InitSplice ==
    /\ script \in {"prs", "commits"}
    /\ limit = MaxLimit
    /\ includeDrafts = FALSE
    /\ pc = "update"
    /\ recs \in Fetched(script)
    /\ seen = {recs[i].key : i \in 1..Len(recs)}
    /\ page = 1
    /\ left = 0
    /\ commitCache = EmptyCache
    /\ inl = 0
    /\ headSha = NULL
    /\ last = [date |-> "edge", out |-> "none", pr |-> NoPr, reply |-> "none"]
    /\ lookupDates = {}
    /\ failedShas = {}
    /\ doc \in Docs
    /\ markup = <<>>
    /\ writes = 0
    /\ exitCode = "running"
    /\ error = "none"
    /\ run = 1
    /\ doc0 = doc
    /\ doc1 = doc
    /\ InitBadgeIdle

NextSplice ==
    \/ RenderAndUpdate
    \/ RunAgain

SpecSplice == InitSplice /\ [][NextSplice]_vars

-----------------------------------------------------------------------------
(* update-language-badge.mjs *)

Langs == {"C", "Go", "Rust"}

\* edge.size values of the GraphQL answer (0 stands for a missing size too)
EdgeSizes == {0, 1, 2, 200}

Max(a, b) == IF a >= b THEN a ELSE b

RECURSIVE SumSizes(_)
SumSizes(entries) ==
    IF entries = <<>> THEN 0 ELSE entries[1].size + SumSizes(Tail(entries))

RECURSIVE SumSeq(_)
SumSeq(ns) == IF ns = <<>> THEN 0 ELSE ns[1] + SumSeq(Tail(ns))

\* lines 77-86: one language edge added to the Map (insertion order kept)
addEdge(map, name, size) ==
    IF name = NULL \/ size = 0 THEN map
    ELSE IF \E i \in 1..Len(map) : map[i].name = name
    THEN [i \in 1..Len(map) |->
             IF map[i].name = name
             THEN [name |-> name, size |-> map[i].size + size]
             ELSE map[i]]
    ELSE Append(map, [name |-> name, size |-> size])

\* Array.prototype.sort((a, b) => b.size - a.size): descending and stable
RECURSIVE SortDesc(_)
SortDesc(entries) ==
    IF entries = <<>> THEN <<>>
    ELSE LET top == CHOOSE i \in 1..Len(entries) :
                       /\ \A j \in 1..Len(entries) : entries[j].size <= entries[i].size
                       /\ \A j \in 1..(i - 1) : entries[j].size < entries[i].size
             rest == [k \in 1..(Len(entries) - 1) |->
                         IF k < top THEN entries[k] ELSE entries[k + 1]]
         IN  <<entries[top]>> \o SortDesc(rest)

\* lines 94-97: the entries buildSvg renders
topEntries(map, n) ==
    LET sorted == SortDesc(map)
    IN  SubSeq(sorted, 1, IF n < Len(sorted) THEN n ELSE Len(sorted))

MathRound_floor(size, total) == {(100 * size) \div total}

\* Math.round((size / total) * 100).  The quotient and the product are
\* IEEE-754 doubles: where 100 * size / total is exactly k + 1/2 the double
\* is k + 1/2 or just below it (23 / 40 * 100 is 57.49999999999999), so
\* Math.round gives k + 1 or k; everywhere else it gives the nearest integer
MathRound(size, total) ==
    LET k == (100 * size) \div total
    IN  IF 200 * size = (2 * k + 1) * total THEN {k, k + 1}
        ELSE {(200 * size + total) \div (2 * total)}

\* line 113: the values `percent` can take for one entry
percentOf(size, total) == {Max(1, r) : r \in MathRound(size, total)}

RECURSIVE rowLabels(_, _)
rowLabels(entries, total) ==
    IF entries = <<>> THEN {<<>>}
    ELSE {<<p>> \o rest : p \in percentOf(entries[1].size, total),
                          rest \in rowLabels(Tail(entries), total)}

\* lines 99-113: the percent labels of the rendered rows; none when the
\* placeholder image is returned
percentLabels(entries) ==
    LET total == SumSizes(entries)
    IN  IF Len(entries) = 0 \/ total = 0 THEN {<<>>}
        ELSE rowLabels(entries, total)

\* lines 12-15: no token, the script logs a warning and exits with status 0
SkipWithoutToken ==
    /\ script = "badge"
    /\ pc = "token"
    /\ pc' = "done"
    /\ exitCode' = "0"
    /\ UNCHANGED <<script, limit, includeDrafts, run, error>>
    /\ UNCHANGED feedVars
    /\ UNCHANGED fileVars
    /\ UNCHANGED badgeVars

\* lines 59-70: a non-ok response or a payload with errors throws (main's
\* catch exits with status 1); otherwise the repositories are iterated
GraphqlResponse(ok, hasErrors) ==
    /\ script = "badge"
    /\ pc = "token"
    /\ pc' = IF ok /\ ~hasErrors THEN "edges" ELSE "failed"
    /\ exitCode' = IF ok /\ ~hasErrors THEN exitCode ELSE "1"
    /\ error' = IF ~ok THEN "graphql-http" ELSE IF hasErrors THEN "graphql-errors" ELSE error
    /\ UNCHANGED <<script, limit, includeDrafts, run>>
    /\ UNCHANGED feedVars
    /\ UNCHANGED fileVars
    /\ UNCHANGED badgeVars

\* lines 73-88: one edge of one repository
Edge(name, size) ==
    /\ script = "badge"
    /\ pc = "edges"
    /\ edges < MaxEdges
    /\ edges' = edges + 1
    /\ languageMap' = addEdge(languageMap, name, size)
    /\ UNCHANGED <<script, limit, includeDrafts, run, pc, exitCode, error,
                   topLimit, labels>>
    /\ UNCHANGED feedVars
    /\ UNCHANGED fileVars

\* lines 148-151: buildSvg and the unconditional writeFile
BuildSvg ==
    /\ script = "badge"
    /\ pc = "edges"
    /\ labels' \in percentLabels(topEntries(languageMap, topLimit))
    /\ writes' = writes + 1
    /\ pc' = "done"
    /\ exitCode' = "0"
    /\ UNCHANGED <<script, limit, includeDrafts, run, error, languageMap, edges,
                   topLimit, doc, markup, doc0, doc1>>
    /\ UNCHANGED feedVars

InitBadge ==
    /\ script = "badge"
    /\ limit = 0
    /\ includeDrafts = FALSE
    /\ pc = "token"
    /\ InitFeed
    /\ doc = <<>>
    /\ markup = <<>>
    /\ writes = 0
    /\ exitCode = "running"
    /\ error = "none"
    /\ run = 1
    /\ doc0 = <<>>
    /\ doc1 = <<>>
    /\ languageMap = <<>>
    /\ edges = 0
    /\ topLimit \in 0..MaxTop
    /\ labels = <<>>

NextBadge ==
    \/ SkipWithoutToken
    \/ \E ok \in BOOLEAN, hasErrors \in BOOLEAN : GraphqlResponse(ok, hasErrors)
    \/ \E name \in Langs \cup {NULL}, size \in EdgeSizes : Edge(name, size)
    \/ BuildSvg

SpecBadge == InitBadge /\ [][NextBadge]_vars

\* C6: the percent labels of a rendered badge sum to at least 100
C6_LabelsSumAtLeast100 ==
    (pc = "done" /\ labels # <<>>) => SumSeq(labels) >= 100

\* C6, amended: every label is at least 1, and the labels of n rendered
\* entries sum to at least 100 - floor(n / 2)
C6_LabelsSumBound ==
    (pc = "done" /\ labels # <<>>) =>
        /\ \A i \in 1..Len(labels) : labels[i] >= 1
        /\ SumSeq(labels) >= 100 - (Len(labels) \div 2)

\* three equal languages: 33 + 33 + 33
C6_ThreeThirds ==
    /\ pc = "done"
    /\ labels = <<33, 33, 33>>

-----------------------------------------------------------------------------
(* Properties of the reporters, checked under Spec *)

\* C1: the list a fetch builds never holds more records than the configured
\* limit, for every limit 0, 1, 2, ...
C1_ListWithinLimit == Len(recs) <= limit

\* with a limit of at least 1 the list does stay within it
ListWithinPositiveLimit == limit >= 1 => Len(recs) <= limit

\* C2: no two records of a run carry the same deduplication key (the pull
\* request URL, the commit SHA), whichever path a commit came in by
C2_NoDuplicateKeys ==
    \A i, j \in 1..Len(recs) : recs[i].key = recs[j].key => i = j

\* a head reference was skipped as already seen, and every record so far came
\* from an inline commit list: the inline path had registered that SHA
C2_HeadSkippedAfterInline ==
    /\ script = "commits"
    /\ last.out = "dup-head"
    /\ Len(recs) >= 1
    /\ \A i \in 1..Len(recs) : recs[i].via = "inline"

\* C7: a non-ok answer to an events request ends the run with exit status 1
\* and README.md as it was; a run writes README.md at most once, and only
\* once the fetch is over
C7_EventsFailureIsFatal ==
    /\ last.out = "http-error" =>
          /\ pc = "failed"
          /\ exitCode = "1"
          /\ error = "events"
          /\ writes = 0
          /\ doc = doc0
    /\ writes <= 1
    /\ writes = 1 => pc = "done"

\* the request for a later page failed when records were already collected
C7_FailureAfterRecords ==
    /\ last.out = "http-error"
    /\ page > 1
    /\ Len(recs) >= 1

\* C8: an event whose created_at does not parse, or is before sinceDate,
\* adds no record and sends no commit-detail request
C8_StaleEventsYieldNothing ==
    /\ [](lookupDates \subseteq {"edge"})
    /\ [][last'.date \in {"invalid", "old"} =>
             recs' = recs /\ lookupDates' = lookupDates]_vars

\* an event before sinceDate has just been skipped, with records in the list
C8_StaleSkipped ==
    /\ last.date = "old"
    /\ last.out = "stale"
    /\ Len(recs) >= 1

\* C9: the status of a record is decided by merged_at, then state, then draft
C9_StatusPriority ==
    (script = "prs" /\ last.out = "pushed") =>
        LET st == recs[Len(recs)].status
            pr == last.pr
        IN  /\ st \in {"Merged", "Closed", "Draft", "Open"}
            /\ pr.merged_at # NULL => st = "Merged"
            /\ (pr.merged_at = NULL /\ pr.state = "closed") => st = "Closed"
            /\ (pr.merged_at = NULL /\ pr.state # "closed" /\ pr.draft)
                  => st = "Draft"
            /\ (pr.merged_at = NULL /\ pr.state # "closed" /\ ~pr.draft)
                  => st = "Open"

\* a merged, closed draft was recorded as Merged
C9_MergedClosedDraft ==
    /\ script = "prs"
    /\ last.out = "pushed"
    /\ last.pr.merged_at # NULL
    /\ last.pr.state = "closed"
    /\ last.pr.draft
    /\ recs[Len(recs)].status = "Merged"

\* C10: a commit-detail request that fails (non-ok status or rejected fetch)
\* adds no record, leaves seen as it was and does not end the run: the scan
\* goes on; a request that succeeds appends its record at the end of the list
C10_LookupFailureNotFatal ==
    [][/\ (pc = "lookup" /\ last'.reply \in {"status", "reject"}) =>
             /\ recs' = recs
             /\ seen' = seen
             /\ exitCode' = "running"
             /\ error' = "none"
             /\ pc' = (IF left = 1 THEN "fetch" ELSE "scan")
       /\ (pc = "lookup" /\ last'.reply = "ok") =>
             /\ Len(recs') = Len(recs) + 1
             /\ SubSeq(recs', 1, Len(recs)) = recs
             /\ recs'[Len(recs')].via = "head"
             /\ recs'[Len(recs')].key \in seen']_vars

\* a head reference whose request failed was recorded by a later event, after
\* another record
C10_RecordedAfterFailure ==
    /\ script = "commits"
    /\ Len(recs) >= 2
    /\ recs[Len(recs)].via = "head"
    /\ recs[Len(recs)].key \in failedShas

-----------------------------------------------------------------------------
(* Properties of the splice, checked under SpecSplice *)

\* C3: a second run with the same list leaves README.md as the first run
\* left it and writes nothing
C3_SpliceIdempotent ==
    (run = 2 /\ pc \in {"done", "failed"}) =>
        /\ pc = "done"
        /\ doc = doc1
        /\ writes = 0

\* a second run is a no-op whenever the markup does not spell the end marker
IdempotentWithoutEndMarkerText ==
    (run = 2 /\ pc \in {"done", "failed"}
        /\ IndexOf(markup, END_TAG(script)) = -1) =>
        /\ pc = "done"
        /\ doc = doc1
        /\ writes = 0

\* C4: a splice that writes keeps README.md up to and including the start
\* marker and from the end marker on, puts the markup between them, and so
\* keeps the other script's region wherever it lies outside
C4_SpliceFrame ==
    (pc = "done" /\ writes = 1) =>
        LET s == IndexOf(doc0, START_TAG(script))
            e == IndexOf(doc0, END_TAG(script))
            os == IndexOf(doc0, START_TAG(Other(script)))
            oe == IndexOf(doc0, END_TAG(Other(script)))
            grow == Len(doc) - Len(doc0)
        IN  /\ Slice(doc, 0, s + 1) = Slice(doc0, 0, s + 1)
            /\ SliceFrom(doc, e + grow) = SliceFrom(doc0, e)
            /\ Slice(doc, s + 1, e + grow) = <<NL>> \o markup \o <<NL>>
            /\ (os # -1 /\ oe > os /\ oe < s) =>
                  Slice(doc, os, oe + 1) = Slice(doc0, os, oe + 1)
            /\ (os > e /\ oe > os) =>
                  Slice(doc, os + grow, oe + 1 + grow) = Slice(doc0, os, oe + 1)

\* a splice rewrote its region in a README.md whose other region comes later
C4_WroteBeforeOtherRegion ==
    /\ pc = "done"
    /\ writes = 1
    /\ doc # doc0
    /\ IndexOf(doc0, START_TAG(Other(script))) > IndexOf(doc0, END_TAG(script))
    /\ IndexOf(doc0, END_TAG(Other(script))) > IndexOf(doc0, START_TAG(Other(script)))

\* C5: without a start marker, without an end marker, or with the end marker
\* not after the start marker, updateReadme throws, nothing is written and
\* the process exits with status 1
C5_MissingMarkersFail ==
    LET s == IndexOf(doc0, START_TAG(script))
        e == IndexOf(doc0, END_TAG(script))
    IN  (markup # <<>> /\ (s = -1 \/ e = -1 \/ e <= s)) =>
            /\ pc = "failed"
            /\ error = "markers"
            /\ exitCode = "1"
            /\ writes = 0
            /\ doc = doc0

\* both markers are there, the end marker first, and the run failed
C5_MarkersOutOfOrder ==
    /\ pc = "failed"
    /\ error = "markers"
    /\ IndexOf(doc0, START_TAG(script)) > IndexOf(doc0, END_TAG(script))
    /\ IndexOf(doc0, END_TAG(script)) # -1

====
